---- MODULE Spec2Model ----
(***************************************************************************)
(* acrpc: a schema-driven RPC protocol over HTTP.                          *)
(*                                                                         *)
(* The model covers the server dispatcher (createServer / fillRouter /     *)
(* getInput and the per-request route handler of src/src/server.ts), the   *)
(* client tree builder (fillClientFetcher of src/unnamed/part_000) and the *)
(* shared pieces of src/unnamed/part_001 (kebabTransformer, the JSON       *)
(* transformer, the verbs).                                                *)
(*                                                                         *)
(* Strings that the code takes apart or glues together (schema keys, URL   *)
(* paths, wire texts) are sequences of tokens; everything else that is a   *)
(* string in the code is a TLA+ string.                                    *)
(***************************************************************************)
EXTENDS Integers, Sequences, FiniteSets, TLC

VARIABLES
  schema,        \* the schema tree handed to createServer / createClient
  handlers,      \* the handler tree handed to createServer
  getMetadata,   \* options.getMetadata: "undefined" or "fn"
  router,        \* the express Router's stack of layers, in registration order
  registered,    \* the register() calls in order: the tree, and whether it raised
  fetcher,       \* the client's fetcher tree (Undef until createClient ran)
  pc,            \* where the request in flight is
  req,           \* the request in flight
  layer,         \* index of the next router layer to try for the request
  cur,           \* the route closure serving the request: handler + schemaEntry
  metadata,      \* the route handler's local `metadata`
  rawInput,      \* getInput's local `rawInput`
  parse,         \* inputParseResult
  rawOutput,     \* what the handler returned
  output,        \* the route handler's local `output`
  res,           \* the express Response of the request
  trace,         \* the protocol states the request went through, in order
  calls,         \* per request: how often the handler, transformer.deserialize,
                 \* transformer.serialize ran, whether getInput read the payload,
                 \* and the writes of the dispatcher after the handler returned
  clientOptions, \* the options handed to createClient: fetch, init, interceptor
  callerInit,    \* an init object the caller holds and passes to its calls
  call           \* the client call in flight

vars == <<schema, handlers, getMetadata, router, registered, fetcher, pc, req,
          layer, cur, metadata, rawInput, parse, rawOutput, output, res, trace,
          calls, clientOptions, callerInit, call>>

-----------------------------------------------------------------------------
(* Bounds of the model *)

\* how many issues the most broken value of the model makes the validator report
MaxIssues == 2

\* how many times register() is called after createServer
MaxRegister == 2

-----------------------------------------------------------------------------
(* Strings *)

\* Array.prototype.join on an array of strings
RECURSIVE Join(_, _)
Join(parts, sep) ==
  IF Len(parts) = 0 THEN <<>>
  ELSE IF Len(parts) = 1 THEN parts[1]
  ELSE parts[1] \o sep \o Join(Tail(parts), sep)

UpperChars == {"A", "B", "P", "U"}
SepChars == {"_", "-"}

ToLowerChar(c) ==
  CASE c = "A" -> "a" [] c = "B" -> "b" [] c = "P" -> "p" [] c = "U" -> "u"
    [] OTHER -> c

ToUpperChar(c) ==
  CASE c = "a" -> "A" [] c = "c" -> "C" [] c = "d" -> "D" [] c = "e" -> "E"
    [] c = "g" -> "G" [] c = "h" -> "H" [] c = "l" -> "L" [] c = "o" -> "O"
    [] c = "p" -> "P" [] c = "s" -> "S" [] c = "t" -> "T" [] c = "u" -> "U"
    [] OTHER -> c

\* String.prototype.toUpperCase
toUpperCase(s) == [i \in 1..Len(s) |-> ToUpperChar(s[i])]

\* UnknownCaseStrategy: cut a key into words at separators and before capitals
RECURSIVE SplitWords(_, _, _)
SplitWords(s, words, w) ==
  IF Len(s) = 0 THEN (IF Len(w) = 0 THEN words ELSE Append(words, w))
  ELSE LET c == Head(s) IN
    IF c \in SepChars
      THEN SplitWords(Tail(s), IF Len(w) = 0 THEN words ELSE Append(words, w), <<>>)
    ELSE IF c \in UpperChars
      THEN SplitWords(Tail(s), IF Len(w) = 0 THEN words ELSE Append(words, w),
                      <<ToLowerChar(c)>>)
    ELSE SplitWords(Tail(s), words, Append(w, c))

\* kebabTransformer.transform: the words of the key, lower case, joined by "-"
kebabTransform(name) == Join(SplitWords(name, <<>>, <<>>), <<"-">>)

\* the verbs
GET == <<"g", "e", "t">>
POST == <<"p", "o", "s", "t">>
PUT == <<"p", "u", "t">>
PATCH == <<"p", "a", "t", "c", "h">>
DELETE == <<"d", "e", "l", "e", "t", "e">>
methods == <<GET, POST, PUT, PATCH, DELETE>>
Methods == {methods[i] : i \in 1..Len(methods)}

-----------------------------------------------------------------------------
(* Application values and the transformer *)

\* A JavaScript value is a pair <<what, n>>.
NullV == <<"null", 0>>
UndefV == <<"undefined", 0>>
User == <<"user", 0>>             \* an object the validator accepts as it is
UserX == <<"userExtra", 0>>       \* the same with an unknown key, which the validator strips
Bad(k) == <<"bad", k>>            \* an object violating k constraints of the validator
StrPct == <<"string %41", 0>>     \* the string %41
StrA == <<"string A", 0>>         \* the string A
StrP == <<"string %", 0>>         \* the string %
FalseV == <<"false", 0>>          \* the boolean false

BadValues == {Bad(k) : k \in 1..MaxIssues}
JsonValues == {NullV, FalseV, User, UserX, StrPct, StrA, StrP} \cup BadValues
ReturnValues == {UndefV, User, UserX} \cup BadValues

\* A wire text is a sequence of tokens, each a pair like the values: the JSON text of
\* an object is one token, the JSON text of a string is spelled out.
Quote == <<"quote", 0>>
Percent == <<"%", 0>>
Hex4 == <<"4", 0>>
Hex1 == <<"1", 0>>
Hex2 == <<"2", 0>>
Hex5 == <<"5", 0>>
CharA == <<"A", 0>>
Brace == <<"{", 0>>

\* a string, or JavaScript's undefined where the code expects a string
Text(t) == [str |-> TRUE, text |-> t]
NoText == [str |-> FALSE, text |-> <<>>]

\* JavaScript truthiness of a string-or-undefined
Truthy(s) == s.str /\ Len(s.text) > 0

\* jsonTransformer.serialize = JSON.stringify: undefined has no JSON text
serialize(data) ==
  IF data = UndefV THEN NoText
  ELSE IF data = StrPct THEN Text(<<Quote, Percent, Hex4, Hex1, Quote>>)
  ELSE IF data = StrA THEN Text(<<Quote, CharA, Quote>>)
  ELSE IF data = StrP THEN Text(<<Quote, Percent, Quote>>)
  ELSE Text(<<data>>)

\* jsonTransformer.deserialize = JSON.parse: the value whose JSON text this is,
\* a SyntaxError for any other text
deserialize(text) ==
  IF \E v \in JsonValues : serialize(v).text = text
    THEN [threw |-> FALSE, value |-> CHOOSE v \in JsonValues : serialize(v).text = text]
    ELSE [threw |-> TRUE, value |-> UndefV]

\* a text that is no JSON
Malformed == <<Brace>>

\* decodeURIComponent: %41 is A, %25 is %, %22 is ", a % followed by anything else is
\* a URIError
RECURSIVE decodeURIComponent(_)
decodeURIComponent(t) ==
  IF Len(t) = 0 THEN [threw |-> FALSE, text |-> <<>>]
  ELSE IF Head(t) # Percent
    THEN LET rest == decodeURIComponent(Tail(t)) IN
         [threw |-> rest.threw, text |-> <<Head(t)>> \o rest.text]
  ELSE IF Len(t) >= 3 /\ <<t[2], t[3]>> \in {<<Hex4, Hex1>>, <<Hex2, Hex5>>,
                                             <<Hex2, Hex2>>}
    THEN LET rest == decodeURIComponent(SubSeq(t, 4, Len(t))) IN
         [threw |-> rest.threw,
          text |-> <<IF t[2] = Hex4 THEN CharA
                     ELSE IF t[3] = Hex5 THEN Percent ELSE Quote>> \o rest.text]
  ELSE [threw |-> TRUE, text |-> <<>>]

-----------------------------------------------------------------------------
(* Validators *)

Validators == {"UserSchema"}

\* one zod issue
Issue(i) == [code |-> "invalid_type", path |-> <<i>>, message |-> "Required"]

\* ZodType.safeParse for UserSchema, an optional object schema that strips unknown
\* keys: the canonical value on success, one issue per violated constraint otherwise
safeParse(validator, value) ==
  IF value \in {User, UserX}
    THEN [success |-> TRUE, data |-> User, issues |-> <<>>]
  ELSE IF value = UndefV
    THEN [success |-> TRUE, data |-> UndefV, issues |-> <<>>]
  ELSE IF value \in BadValues
    THEN [success |-> FALSE, data |-> UndefV,
          issues |-> [i \in 1..value[2] |-> Issue(i)]]
  ELSE [success |-> FALSE, data |-> UndefV, issues |-> <<Issue(0)>>]

-----------------------------------------------------------------------------
(* Schema, handler and fetcher trees *)

\* A JavaScript object is its entries in insertion order.
Obj(entries) == [t |-> "obj", ent |-> entries]
Entry(k, v) == [k |-> k, v |-> v]
Undef == [t |-> "undef"]
\* a handler function
Fn(id) == [t |-> "fn", id |-> id]

\* SchemaEndpoint; the optional fields are "undefined" when not declared
Endpoint(inp, outp, used, required, cacheControl) ==
  [t |-> "ep", input |-> inp, output |-> outp, isMetadataUsed |-> used,
   isMetadataRequired |-> required, cacheControl |-> cacheControl]

\* obj[name]: undefined when the key is missing or obj has no own keys
Get(obj, name) ==
  IF obj.t = "obj" /\ \E i \in 1..Len(obj.ent) : obj.ent[i].k = name
    THEN obj.ent[CHOOSE i \in 1..Len(obj.ent) : obj.ent[i].k = name].v
    ELSE Undef

\* obj[name] = value
Put(obj, name, value) ==
  IF \E i \in 1..Len(obj.ent) : obj.ent[i].k = name
    THEN Obj([i \in 1..Len(obj.ent) |->
                IF obj.ent[i].k = name THEN Entry(name, value) ELSE obj.ent[i]])
    ELSE Obj(Append(obj.ent, Entry(name, value)))

\* Object.entries: a function has no own enumerable keys
ObjectEntries(obj) == IF obj.t = "obj" THEN obj.ent ELSE <<>>

isEndpoint(schemaEntry) ==
  /\ schemaEntry.t = "ep"
  /\ schemaEntry.input \in Validators \cup {"null", "undefined"}
  /\ schemaEntry.output \in Validators \cup {"null", "undefined"}

\* x ?? d for the optional boolean fields
OrDefault(x, d) == IF x = "undefined" THEN d ELSE (x = "true")

-----------------------------------------------------------------------------
(* Server: registration *)

\* one layer of the router's stack: express.text() or a route handler closure
TextLayer(method, path) ==
  [method |-> method, path |-> path, kind |-> "text",
   handler |-> Fn(<<"textMiddleware", <<>>>>), entry |-> Undef, okStatus |-> 0]

\* a route closure whose okStatus is 200 for every verb
RouteLayerOk200(method, path, handler, schemaEntry) ==
  [method |-> method, path |-> path, kind |-> "route", handler |-> handler,
   entry |-> schemaEntry, okStatus |-> 200]

RouteLayer(method, path, handler, schemaEntry) ==
  [method |-> method, path |-> path, kind |-> "route", handler |-> handler,
   entry |-> schemaEntry, okStatus |-> IF method = POST THEN 201 ELSE 200]

\* ["", ...names].join("/")
PathOf(names) == Join(<<<<>>>> \o names, <<"/">>)

\* the body of fillRouter's loop for an entry whose schema entry is an Endpoint
RegisterRoute(stack, name, handler, schemaEntry, names) ==
  LET path == PathOf(names)
      method == name
      withText == IF method # GET THEN Append(stack, TextLayer(method, path))
                  ELSE stack
  IN Append(withText, RouteLayer(method, path, handler, schemaEntry))

\* a subtree key used as it is, not normalized
SegmentRaw(name) == name

\* lines 300-303: the path segment fillRouter adds for a subtree key
Segment(name) == kebabTransform(name)

\* fillRouter(schema, handlers, names) run on the router rt = [stack, threw];
\* threw: a TypeError (reading a key of undefined) ended the walk
RECURSIVE fillRouter(_, _, _, _)
RECURSIVE FillRouterFrom(_, _, _, _, _)
FillRouterFrom(rt, sch, hs, names, i) ==
  IF rt.threw \/ i > Len(ObjectEntries(hs)) THEN rt
  ELSE LET name == ObjectEntries(hs)[i].k
           handler == ObjectEntries(hs)[i].v
       IN IF sch.t = "undef" THEN [rt EXCEPT !.threw = TRUE]
          ELSE LET schemaEntry == Get(sch, name) IN
            IF isEndpoint(schemaEntry)
              THEN FillRouterFrom(
                     [rt EXCEPT !.stack =
                        RegisterRoute(rt.stack, name, handler, schemaEntry, names)],
                     sch, hs, names, i + 1)
              ELSE FillRouterFrom(
                     fillRouter(rt, Get(sch, name), Get(hs, name),
                                Append(names, Segment(name))),
                     sch, hs, names, i + 1)

fillRouter(rt, sch, hs, names) == FillRouterFrom(rt, sch, hs, names, 1)

\* Router()
NewRouter == [stack |-> <<>>, threw |-> FALSE]

-----------------------------------------------------------------------------
(* Client: the fetcher tree *)

\* the callable fillClientFetcher binds to (method, path, schemaEntry)
Callable(method, path, schemaEntry) ==
  [t |-> "call", method |-> method, path |-> path, entry |-> schemaEntry]

RECURSIVE fillClientFetcher(_, _, _)
RECURSIVE FillClientFrom(_, _, _, _)
FillClientFrom(sch, names, result, i) ==
  IF i > Len(ObjectEntries(sch)) THEN result
  ELSE LET name == ObjectEntries(sch)[i].k
           schemaEntry == ObjectEntries(sch)[i].v
           kebabName == kebabTransform(name)
       IN IF isEndpoint(schemaEntry)
            THEN FillClientFrom(sch, names,
                   Put(result, name, Callable(name, PathOf(names), schemaEntry)),
                   i + 1)
            ELSE FillClientFrom(sch, names,
                   Put(result, name,
                       fillClientFetcher(schemaEntry, Append(names, kebabName), Obj(<<>>))),
                   i + 1)

fillClientFetcher(sch, names, result) == FillClientFrom(sch, names, result, 1)

-----------------------------------------------------------------------------
(* Server: the express Response *)

Body(kind, text, msg, issues) ==
  [kind |-> kind, text |-> text, msg |-> msg, issues |-> issues]
NoBody == Body("none", <<>>, "", <<>>)
TextBody(text) == Body("text", text, "", <<>>)
ErrorBody(msg) == Body("error", <<>>, msg, <<>>)

\* a fresh response: nothing sent, node's default status
NewRes ==
  [statusCode |-> 200, headersSent |-> FALSE, writableEnded |-> FALSE,
   cacheControl |-> "undefined", body |-> NoBody, sends |-> 0, threw |-> FALSE,
   log |-> <<>>]

\* every call on the response is logged with who made it and what was sent by then
Called(r, by, op) ==
  [r EXCEPT !.log = Append(@, [by |-> by, op |-> op, sent |-> r.headersSent,
                               ended |-> r.writableEnded])]

\* res.status(code): sets the status code of the response object
ResStatus(r, by, code) == [Called(r, by, "status") EXCEPT !.statusCode = code]

\* res.setHeader("Cache-Control", value): ERR_HTTP_HEADERS_SENT once headers are out
ResSetHeader(r, by, value) ==
  IF r.headersSent THEN [Called(r, by, "setHeader") EXCEPT !.threw = TRUE]
  ELSE [Called(r, by, "setHeader") EXCEPT !.cacheControl = value]

\* res.send(body) / res.json(body): sets headers, writes the body and ends the
\* response; ERR_HTTP_HEADERS_SENT once headers are out
ResSend(r, by, op, body) ==
  IF r.headersSent THEN [Called(r, by, op) EXCEPT !.threw = TRUE]
  ELSE [Called(r, by, op) EXCEPT !.body = body, !.headersSent = TRUE,
                                 !.writableEnded = TRUE, !.sends = @ + 1]

\* res.write(chunk): flushes the headers and leaves the response open
ResWrite(r, by) == [Called(r, by, "write") EXCEPT !.headersSent = TRUE]

-----------------------------------------------------------------------------
(* Server: what a handler may do with the response it is given *)

HandlerActs == {"none", "status", "write", "send"}

HandlerEffect(r, act) ==
  CASE act = "none" -> r
    [] act = "status" -> ResStatus(r, "handler", 404)
    [] act = "write" -> ResWrite(r, "handler")
    [] act = "send" ->
         ResSend(ResStatus(r, "handler", 202), "handler", "send",
                 Body("handler", <<>>, "", <<>>))

-----------------------------------------------------------------------------
(* Server: getInput *)

\* getInput without the test for a missing payload
ReadBodyUnchecked(r, inputSchema) ==
  IF r.method = toUpperCase(GET)
    THEN LET dec == IF Truthy(r.query) THEN decodeURIComponent(r.query.text)
                    ELSE [threw |-> FALSE, text |-> <<>>]
         IN [threw |-> dec.threw,
             body |-> IF Truthy(r.query) THEN Text(dec.text) ELSE NoText,
             missing |-> FALSE, error |-> "No __body provided"]
    ELSE [threw |-> FALSE, body |-> r.body, missing |-> FALSE,
          error |-> "No body provided"]

\* lines 97-127: the payload string getInput reads off the request, and whether it
\* answers 400 for a missing one; threw: decodeURIComponent raised a URIError
ReadBody(r, inputSchema) ==
  IF r.method = toUpperCase(GET)
    THEN LET dec == IF Truthy(r.query) THEN decodeURIComponent(r.query.text)
                    ELSE [threw |-> FALSE, text |-> <<>>]
             body == IF Truthy(r.query) THEN Text(dec.text) ELSE NoText
         IN [threw |-> dec.threw, body |-> body,
             missing |-> inputSchema \in Validators /\ ~Truthy(body),
             error |-> "No __body provided"]
    ELSE [threw |-> FALSE, body |-> r.body,
          missing |-> inputSchema \in Validators /\ ~Truthy(r.body),
          error |-> "No body provided"]

\* line 131: body ? transformer.deserialize(body) : null
RawInputOf(body) ==
  IF Truthy(body) THEN deserialize(body.text)
  ELSE [threw |-> FALSE, value |-> NullV]

\* getInput passing the value on whatever the validator says
ParseInputAccepts(inputSchema, raw) ==
  [success |-> TRUE, data |-> raw, status |-> 0, response |-> NoBody]

\* getInput reporting the validator's first issue only
ParseInputFirstIssue(inputSchema, raw) ==
  IF inputSchema \in Validators /\ ~safeParse(inputSchema, raw).success
    THEN [success |-> FALSE, data |-> UndefV, status |-> 400,
          response |-> Body("issues", <<>>, "",
             <<[path |-> safeParse(inputSchema, raw).issues[1].path,
                message |-> safeParse(inputSchema, raw).issues[1].message]>>)]
    ELSE [success |-> TRUE,
          data |-> IF inputSchema \in Validators
                     THEN safeParse(inputSchema, raw).data ELSE raw,
          status |-> 0, response |-> NoBody]

\* lines 135-160: the InputParseResult for a deserialized value
ParseInput(inputSchema, raw) ==
  IF inputSchema \in Validators
    THEN LET schemaParseResult == safeParse(inputSchema, raw) IN
      IF schemaParseResult.success
        THEN [success |-> TRUE, data |-> schemaParseResult.data, status |-> 0,
              response |-> NoBody]
        ELSE [success |-> FALSE, data |-> UndefV, status |-> 400,
              response |-> Body("issues", <<>>, "",
                 [i \in 1..Len(schemaParseResult.issues) |->
                    [path |-> schemaParseResult.issues[i].path,
                     message |-> schemaParseResult.issues[i].message]])]
    ELSE [success |-> TRUE, data |-> raw, status |-> 0, response |-> NoBody]

NoParse == [success |-> FALSE, data |-> UndefV, status |-> 0, response |-> NoBody]

-----------------------------------------------------------------------------
(* Server: one request *)

NoReq == [method |-> <<>>, path |-> <<>>, query |-> NoText, wire |-> NoText,
          body |-> NoText]
NoCur == RouteLayer(GET, <<>>, Fn(<<"none", <<>>>>), Undef)
NoCalls == [handler |-> 0, deserialize |-> 0, serialize |-> 0, getInput |-> 0,
            input |-> UndefV, metadata |-> "unset", by |-> <<>>]

\* the payloads a request may carry: none, the JSON text of a value, or broken text
Payloads ==
  {NoText} \cup {serialize(v) : v \in JsonValues \ {NullV, FalseV, StrA}} \cup {Text(Malformed)}

\* what options.getMetadata may return for a request: nothing, or the metadata
ResolverResults == {"null", "md"}

Terminal == {"Done", "Fail", "Crashed", "NotFound"}

\* no client options, no init object held by a caller, no call in flight
NoOptions == [fetch |-> "undefined", body |-> NoText, interceptor |-> "undefined"]
NoInit == [t |-> "undefined", fetch |-> "undefined", skipInterceptor |-> "undefined",
           body |-> NoText, given |-> "undefined"]
NoError == [name |-> "none", method |-> <<>>, url |-> <<>>, status |-> 0,
            description |-> <<>>]
NoResponse == [status |-> 0, ok |-> FALSE, text |-> <<>>, statusText |-> <<>>]
NoRequest == [url |-> <<>>, search |-> <<>>, method |-> <<>>, body |-> NoText,
              contentType |-> "undefined", fetch |-> "none"]
NoCall == [cpc |-> "idle", keys |-> <<>>, input |-> UndefV, init |-> NoInit,
           request |-> NoRequest, response |-> NoResponse, log |-> <<>>,
           kind |-> "none", value |-> UndefV, error |-> NoError]
NoClient == clientOptions = NoOptions /\ callerInit = NoInit /\ call = NoCall

IdleRequest ==
  /\ pc = "idle" /\ req = NoReq /\ layer = 0 /\ cur = NoCur
  /\ metadata = "unset" /\ rawInput = UndefV /\ parse = NoParse
  /\ rawOutput = UndefV /\ output = NoText /\ res = NewRes /\ trace = <<>>
  /\ calls = NoCalls

\* the router has a route for the verb and path
Routed(stack, m, path) ==
  \E i \in 1..Len(stack) :
    stack[i].kind = "route" /\ stack[i].method = m /\ stack[i].path = path

\* a request arrives at the router: get requests carry the payload in the __body
\* query parameter, the other verbs in the body
Receive(m, path, payload) ==
  /\ pc = "idle"
  /\ ~router.threw
  /\ Routed(router.stack, m, path) \/ payload = NoText
  /\ pc' = "Received"
  /\ req' = [method |-> toUpperCase(m), path |-> path,
             query |-> IF m = GET THEN payload ELSE NoText,
             wire |-> IF m = GET THEN NoText ELSE payload,
             body |-> NoText]
  /\ layer' = 1
  /\ trace' = <<"Received">>
  /\ UNCHANGED <<clientOptions, callerInit, call>>
  /\ UNCHANGED <<schema, handlers, getMetadata, router, registered, fetcher, cur,
                 metadata, rawInput, parse, rawOutput, output, res, calls>>

\* the router's stack from layer `from` on: the first layer for the verb and path
Matches(l, r) == toUpperCase(l.method) = r.method /\ l.path = r.path
HasMatch(stack, from, r) == \E j \in from..Len(stack) : Matches(stack[j], r)
NextMatch(stack, from, r) ==
  CHOOSE j \in from..Len(stack) :
    Matches(stack[j], r) /\ \A k \in from..(j - 1) : ~Matches(stack[k], r)

\* no layer is left for the request: express answers 404
RouteNone ==
  /\ pc = "Received"
  /\ ~HasMatch(router.stack, layer, req)
  /\ pc' = "NotFound"
  /\ res' = ResSend(ResStatus(res, "express", 404), "express", "send",
                    ErrorBody("Not Found"))
  /\ trace' = Append(trace, "NotFound")
  /\ UNCHANGED <<clientOptions, callerInit, call>>
  /\ UNCHANGED <<schema, handlers, getMetadata, router, registered, fetcher, req,
                 layer, cur, metadata, rawInput, parse, rawOutput, output, calls>>

\* express.text({type: "*/*"}): reads the raw body into req.body and calls next()
RouteText ==
  /\ pc = "Received"
  /\ HasMatch(router.stack, layer, req)
  /\ LET j == NextMatch(router.stack, layer, req) IN
       /\ router.stack[j].kind = "text"
       /\ req' = [req EXCEPT !.body = req.wire]
       /\ layer' = j + 1
  /\ UNCHANGED <<clientOptions, callerInit, call>>
  /\ UNCHANGED <<schema, handlers, getMetadata, router, registered, fetcher, pc,
                 cur, metadata, rawInput, parse, rawOutput, output, res, trace,
                 calls>>

\* the route handler registered at line 203 is entered
RouteHandler ==
  /\ pc = "Received"
  /\ HasMatch(router.stack, layer, req)
  /\ LET j == NextMatch(router.stack, layer, req) IN
       /\ router.stack[j].kind = "route"
       /\ cur' = router.stack[j]
       /\ layer' = j + 1
       /\ calls' = [calls EXCEPT !.by = Append(@, router.stack[j].handler.id)]
  /\ pc' = "MetadataCheck"
  /\ trace' = Append(trace, "MetadataCheck")
  /\ UNCHANGED <<clientOptions, callerInit, call>>
  /\ UNCHANGED <<schema, handlers, getMetadata, router, registered, fetcher, req,
                 metadata, rawInput, parse, rawOutput, output, res>>

\* lines 204-225: metadata resolution
isMetadataUsed(e) == OrDefault(e.isMetadataUsed, TRUE)
isMetadataRequired(e) == OrDefault(e.isMetadataRequired, TRUE)

\* getMetadata?.(req, isMetadataRequired) ?? null
ResolveMetadata(option, result) == IF option = "undefined" THEN "null" ELSE result

\* the metadata check testing for undefined, which `?? null` never leaves
MetadataFailsStrict(e, md) ==
  isMetadataUsed(e) /\ isMetadataRequired(e) /\ md = "undefined"

MetadataFails(e, md) == isMetadataUsed(e) /\ isMetadataRequired(e) /\ md = "null"

MetadataCheck(result) ==
  /\ pc = "MetadataCheck"
  /\ LET md == IF isMetadataUsed(cur.entry)
                 THEN ResolveMetadata(getMetadata, result) ELSE "undefined"
     IN /\ metadata' = md
        /\ IF MetadataFails(cur.entry, md)
             THEN /\ res' = ResSend(ResStatus(res, "dispatcher", 400), "dispatcher",
                                    "json", ErrorBody("Metadata cannot be parsed."))
                  /\ pc' = "Fail"
                  /\ trace' = Append(trace, "Fail")
             ELSE /\ res' = res
                  /\ pc' = "InputExtract"
                  /\ trace' = Append(trace, "InputExtract")
  /\ UNCHANGED <<clientOptions, callerInit, call>>
  /\ UNCHANGED <<schema, handlers, getMetadata, router, registered, fetcher, req,
                 layer, cur, rawInput, parse, rawOutput, output, calls>>

\* getInput, lines 89-131: read the payload, answer 400 if a validated input is
\* missing, deserialize
InputExtract ==
  /\ pc = "InputExtract"
  /\ LET rd == ReadBody(req, cur.entry.input)
         raw == RawInputOf(rd.body)
         reads == [calls EXCEPT !.getInput = @ + 1]
     IN IF rd.threw
          THEN /\ pc' = "Crashed" /\ trace' = Append(trace, "Crashed")
               /\ res' = res /\ rawInput' = rawInput /\ calls' = reads
        ELSE IF rd.missing
          THEN /\ pc' = "Fail" /\ trace' = Append(trace, "Fail")
               /\ res' = ResSend(ResStatus(res, "dispatcher", 400), "dispatcher",
                                 "json", ErrorBody(rd.error))
               /\ rawInput' = rawInput /\ calls' = reads
        ELSE /\ calls' = [reads EXCEPT !.deserialize =
                            IF Truthy(rd.body) THEN @ + 1 ELSE @]
             /\ res' = res
             /\ IF raw.threw
                  THEN /\ pc' = "Crashed" /\ trace' = Append(trace, "Crashed")
                       /\ rawInput' = rawInput
                  ELSE /\ pc' = "Validate" /\ trace' = Append(trace, "Validate")
                       /\ rawInput' = raw.value
  /\ UNCHANGED <<clientOptions, callerInit, call>>
  /\ UNCHANGED <<schema, handlers, getMetadata, router, registered, fetcher, req,
                 layer, cur, metadata, parse, rawOutput, output>>

\* getInput, lines 135-160, and the failure branch of lines 235-239
Validate ==
  /\ pc = "Validate"
  /\ LET result == ParseInput(cur.entry.input, rawInput) IN
       /\ parse' = result
       /\ IF result.success
            THEN /\ pc' = "Invoke" /\ trace' = Append(trace, "Invoke")
                 /\ res' = res
            ELSE /\ pc' = "Fail" /\ trace' = Append(trace, "Fail")
                 /\ res' = ResSend(ResStatus(res, "dispatcher", result.status),
                                   "dispatcher", "json", result.response)
  /\ UNCHANGED <<clientOptions, callerInit, call>>
  /\ UNCHANGED <<schema, handlers, getMetadata, router, registered, fetcher, req,
                 layer, cur, metadata, rawInput, rawOutput, output, calls>>

\* metadata ?? null
OrNull(md) == IF md \in {"undefined", "unset"} THEN "null" ELSE md

\* line 243: the handler runs with (input, metadata ?? null, {req, res}), does what
\* it does with the response and returns a value
Invoke(act, value) ==
  /\ pc = "Invoke"
  /\ calls' = [calls EXCEPT !.handler = @ + 1, !.input = parse.data,
                            !.metadata = OrNull(metadata)]
  /\ res' = HandlerEffect(res, act)
  /\ rawOutput' = value
  /\ pc' = "OutputValidate"
  /\ trace' = Append(trace, "OutputValidate")
  /\ UNCHANGED <<clientOptions, callerInit, call>>
  /\ UNCHANGED <<schema, handlers, getMetadata, router, registered, fetcher, req,
                 layer, cur, metadata, rawInput, parse, output>>

\* line 243: the handler throws, the route handler's promise rejects
InvokeThrows ==
  /\ pc = "Invoke"
  /\ calls' = [calls EXCEPT !.handler = @ + 1, !.input = parse.data,
                            !.metadata = OrNull(metadata)]
  /\ pc' = "Crashed"
  /\ trace' = Append(trace, "Crashed")
  /\ UNCHANGED <<clientOptions, callerInit, call>>
  /\ UNCHANGED <<schema, handlers, getMetadata, router, registered, fetcher, req,
                 layer, cur, metadata, rawInput, parse, rawOutput, output, res>>

\* lines 252-279 serializing the raw return value instead of the canonical one
OutputOfRaw(e, raw) ==
  IF e.output = "null"
    THEN [failed |-> FALSE, issues |-> <<>>, serialized |-> FALSE,
          parsed |-> NullV, output |-> NoText]
  ELSE IF e.output \in Validators /\ ~safeParse(e.output, raw).success
    THEN [failed |-> TRUE, issues |-> safeParse(e.output, raw).issues,
          serialized |-> FALSE, parsed |-> NullV, output |-> NoText]
  ELSE [failed |-> FALSE, issues |-> <<>>, serialized |-> TRUE, parsed |-> raw,
        output |-> serialize(raw)]

\* lines 252-279: validate and serialize what the handler returned.
\* failed: the output validator rejected it; output: the local `output`, a string
\* or null/undefined (no string)
OutputOf(e, raw) ==
  IF e.output = "null"
    THEN [failed |-> FALSE, issues |-> <<>>, serialized |-> FALSE,
          parsed |-> NullV, output |-> NoText]
  ELSE IF e.output \in Validators
    THEN LET outputParseResult == safeParse(e.output, raw) IN
      IF ~outputParseResult.success
        THEN [failed |-> TRUE, issues |-> outputParseResult.issues,
              serialized |-> FALSE, parsed |-> NullV, output |-> NoText]
        ELSE [failed |-> FALSE, issues |-> <<>>, serialized |-> TRUE,
              parsed |-> outputParseResult.data,
              output |-> serialize(outputParseResult.data)]
  ELSE [failed |-> FALSE, issues |-> <<>>, serialized |-> TRUE, parsed |-> raw,
        output |-> serialize(raw)]

OutputValidate ==
  /\ pc = "OutputValidate"
  /\ LET o == OutputOf(cur.entry, rawOutput)
         r == ResSend(ResStatus(res, "dispatcher", 500), "dispatcher", "json",
                      Body("zodError", <<>>, "", o.issues))
     IN IF o.failed
          THEN /\ res' = r
               /\ output' = output
               /\ calls' = calls
               /\ pc' = IF r.threw THEN "Crashed" ELSE "Fail"
               /\ trace' = Append(trace, IF r.threw THEN "Crashed" ELSE "Fail")
          ELSE /\ res' = res
               /\ output' = o.output
               /\ calls' = [calls EXCEPT !.serialize = IF o.serialized THEN @ + 1 ELSE @]
               /\ pc' = "Respond"
               /\ trace' = Append(trace, "Respond")
  /\ UNCHANGED <<clientOptions, callerInit, call>>
  /\ UNCHANGED <<schema, handlers, getMetadata, router, registered, fetcher, req,
                 layer, cur, metadata, rawInput, parse, rawOutput>>

\* lines 281-295: response finalization
Finalize(r, e, okStatus, out) ==
  LET r1 == IF e.cacheControl \notin {"undefined", ""} /\ ~r.headersSent
              THEN ResSetHeader(r, "dispatcher", e.cacheControl) ELSE r
      r2 == IF ~r1.headersSent THEN ResStatus(r1, "dispatcher", okStatus) ELSE r1
  IN IF ~r2.writableEnded
       THEN ResSend(r2, "dispatcher", "send",
                    IF out.str THEN TextBody(out.text) ELSE TextBody(<<>>))
       ELSE r2

Respond ==
  /\ pc = "Respond"
  /\ LET r == Finalize(res, cur.entry, cur.okStatus, output) IN
       /\ res' = r
       /\ pc' = IF r.threw THEN "Crashed" ELSE "Done"
       /\ trace' = Append(trace, IF r.threw THEN "Crashed" ELSE "Done")
  /\ UNCHANGED <<clientOptions, callerInit, call>>
  /\ UNCHANGED <<schema, handlers, getMetadata, router, registered, fetcher, req,
                 layer, cur, metadata, rawInput, parse, rawOutput, output, calls>>

\* a route handler that hands the request on to the next layer
RouteHandlerCallsNextAlways == TRUE

\* lines 203 and 297: the route handler takes no `next` and never calls it
RouteHandlerCallsNext == FALSE

\* the route handler returned: the request is over, since no later layer of the
\* router is tried; the next request starts from scratch
Finish ==
  /\ pc \in Terminal
  /\ IF RouteHandlerCallsNext /\ pc \in {"Done", "Fail"}
       THEN /\ pc' = "Received"
            /\ UNCHANGED <<req, layer, cur, metadata, rawInput, parse, rawOutput,
                           output, res, trace, calls>>
       ELSE /\ pc' = "idle" /\ req' = NoReq /\ layer' = 0 /\ cur' = NoCur
            /\ metadata' = "unset" /\ rawInput' = UndefV /\ parse' = NoParse
            /\ rawOutput' = UndefV /\ output' = NoText /\ res' = NewRes
            /\ trace' = <<>> /\ calls' = NoCalls
  /\ UNCHANGED <<clientOptions, callerInit, call>>
  /\ UNCHANGED <<schema, handlers, getMetadata, router, registered, fetcher>>

-----------------------------------------------------------------------------
(* The server with one route, every kind of endpoint *)

Inputs == Validators \cup {"null", "undefined"}
Flags == {"undefined", "true", "false"}
CacheControls == {"undefined", "", "max-age=60"}
Endpoints ==
  {Endpoint(i, o, u, r, c) :
     i \in Inputs, o \in Inputs, u \in Flags, r \in Flags, c \in CacheControls}

\* the handler tree that implements every endpoint of a schema; a handler is named
\* after the tree and the keys that lead to it
RECURSIVE HandlersFor(_, _, _)
HandlersFor(sch, tag, keys) ==
  IF isEndpoint(sch) THEN Fn(<<tag, keys>>)
  ELSE Obj([i \in 1..Len(sch.ent) |->
              Entry(sch.ent[i].k,
                    HandlersFor(sch.ent[i].v, tag, Append(keys, sch.ent[i].k)))])

RouteKey == <<"r">>

Init ==
  /\ \E m \in Methods, e \in Endpoints :
       schema = Obj(<<Entry(RouteKey, Obj(<<Entry(m, e)>>))>>)
  /\ handlers = HandlersFor(schema, "h1", <<>>)
  /\ getMetadata \in {"undefined", "fn"}
  /\ router = fillRouter(NewRouter, schema, handlers, <<>>)
  /\ registered = <<>>
  /\ fetcher = Undef
  /\ IdleRequest
  /\ NoClient

RoutePaths == {router.stack[i].path : i \in 1..Len(router.stack)}

Next ==
  \/ \E m \in Methods, path \in RoutePaths, payload \in Payloads :
       Receive(m, path, payload)
  \/ RouteNone
  \/ RouteText
  \/ RouteHandler
  \/ \E result \in ResolverResults : MetadataCheck(result)
  \/ InputExtract
  \/ Validate
  \/ \E act \in HandlerActs, value \in ReturnValues : Invoke(act, value)
  \/ InvokeThrows
  \/ OutputValidate
  \/ Respond
  \/ Finish

Spec == Init /\ [][Next]_vars

-----------------------------------------------------------------------------
(* Claims about one request *)

Canon == <<"Received", "MetadataCheck", "InputExtract", "Validate", "Invoke",
           "OutputValidate", "Respond">>

\* how many protocol states the request has entered, its terminal state not counted
Entered == IF pc \in Terminal THEN Len(trace) - 1 ELSE Len(trace)

\* the request was handed to a route handler
InRoute == Len(trace) >= 2 /\ trace[2] = "MetadataCheck"

IsGet == req.method = toUpperCase(GET)
IsPost == req.method = toUpperCase(POST)

\* the payload as it is on the wire
WirePayload == IF IsGet THEN req.query ELSE req.wire

\* the handler sent headers or ended the response
HandlerSent ==
  \E i \in 1..Len(res.log) :
    res.log[i].by = "handler" /\ res.log[i].op \in {"write", "send"}

DispatcherOps ==
  {res.log[i].op : i \in {j \in 1..Len(res.log) : res.log[j].by = "dispatcher"}}

\* C2: every request goes through Received, MetadataCheck, InputExtract, Validate,
\* Invoke, OutputValidate, Respond in that order and never back; Fail is entered only
\* from MetadataCheck, InputExtract, Validate or OutputValidate; the success response
\* is written in Respond only; the handler runs at most once, and only after the
\* metadata check, the input extraction and the validation have passed.
C2_StateMachine ==
  pc # "idle" =>
    /\ trace[Len(trace)] = pc
    /\ Entered <= Len(Canon)
    /\ \A i \in 1..Entered : trace[i] = Canon[i]
    /\ pc = "Fail" =>
         trace[Entered] \in {"MetadataCheck", "InputExtract", "Validate", "OutputValidate"}
    /\ pc = "Done" => trace[Entered] = "Respond"
    /\ "send" \in DispatcherOps => Entered = Len(Canon)
    /\ calls.handler <= 1
    /\ calls.handler = 1 =>
         /\ Entered >= 5
         /\ ~(/\ cur.entry.isMetadataUsed # "false"
              /\ cur.entry.isMetadataRequired # "false"
              /\ metadata = "null")
         /\ calls.getInput = 1
         /\ cur.entry.input \in Validators =>
              safeParse(cur.entry.input, rawInput).success

\* C2's case: a request went through the whole protocol and its handler ran once
C2_Witness ==
  pc = "Done" /\ Len(trace) = 8 /\ calls.handler = 1 /\ cur.entry.input \in Validators

\* C3: with metadata used and required, and no resolver or a resolver that yields
\* nothing, the request ends in a 400 with the metadata error: getInput never reads
\* the payload, the transformer and the handler never run.
C3_MetadataRequired ==
  (/\ InRoute /\ Len(trace) >= 3
   /\ cur.entry.isMetadataUsed # "false"
   /\ cur.entry.isMetadataRequired # "false"
   /\ (getMetadata = "undefined" \/ metadata = "null"))
  => /\ pc = "Fail" /\ Len(trace) = 3
     /\ res.statusCode = 400
     /\ res.body.kind = "error" /\ res.body.msg = "Metadata cannot be parsed."
     /\ res.sends = 1
     /\ calls.getInput = 0 /\ calls.deserialize = 0 /\ calls.serialize = 0
     /\ calls.handler = 0

\* C3's case: no resolver is configured and a request carrying a payload was refused
C3_Witness ==
  /\ pc = "Fail" /\ Len(trace) = 3 /\ getMetadata = "undefined"
  /\ Truthy(WirePayload) /\ res.statusCode = 400

\* what the 400 for a missing payload says
MissingMsg == IF IsGet THEN "No __body provided" ELSE "No body provided"

\* getInput ran for the request
Extracted == InRoute /\ Len(trace) >= 4 /\ trace[3] = "InputExtract"

\* C4 as claimed: an endpoint whose input is a validator or undefined answers a
\* request without payload with the missing-payload 400 and does not run the handler.
C4_Original ==
  (Extracted /\ cur.entry.input # "null" /\ ~Truthy(WirePayload))
  => /\ pc = "Fail" /\ res.statusCode = 400
     /\ res.body.kind = "error" /\ res.body.msg = MissingMsg
     /\ calls.handler = 0

\* C4, amended: an endpoint whose input is a validator answers a request that passed
\* the metadata step and carries no payload with the missing-payload 400 and does not
\* run the handler; with input undefined the missing payload is not refused and the
\* handler, when it runs, is given null.
C4_MissingPayload ==
  /\ (Extracted /\ cur.entry.input \in Validators /\ ~Truthy(WirePayload))
     => /\ pc = "Fail" /\ Len(trace) = 4 /\ res.statusCode = 400
        /\ res.body.kind = "error" /\ res.body.msg = MissingMsg
        /\ res.sends = 1
        /\ calls.handler = 0 /\ calls.deserialize = 0
  /\ (Extracted /\ cur.entry.input = "undefined" /\ ~Truthy(WirePayload))
     => /\ trace[4] = "Validate"
        /\ Len(trace) >= 5 => trace[5] = "Invoke"
        /\ calls.handler = 1 => calls.input = NullV

\* C4's case: a post without body was refused by an endpoint with a validated input
C4_Witness ==
  /\ pc = "Fail" /\ Extracted /\ cur.entry.input \in Validators
  /\ ~IsGet /\ ~Truthy(WirePayload) /\ res.body.msg = "No body provided"

\* C5 as claimed: an endpoint with input null never reads the payload: deserialize is
\* not called, the handler is given null, and the request ends as one without payload
\* would (in particular never in an exception of the payload's decoding).
C5_NullInputIgnored ==
  (InRoute /\ cur.entry.input = "null")
  => /\ calls.deserialize = 0
     /\ calls.handler = 1 => calls.input = NullV
     /\ ~(pc = "Crashed" /\ Len(trace) = 4)

\* C6: when the validator rejects the deserialized payload the answer is a 400 whose
\* body lists one {path, message} per issue of the validator, in order; the handler
\* does not run and nothing else is written.
C6_InvalidInput ==
  (/\ InRoute /\ Len(trace) >= 5 /\ trace[4] = "Validate"
   /\ cur.entry.input \in Validators
   /\ ~safeParse(cur.entry.input, rawInput).success)
  => LET issues == safeParse(cur.entry.input, rawInput).issues IN
     /\ pc = "Fail" /\ Len(trace) = 5
     /\ res.statusCode = 400
     /\ res.body.kind = "issues"
     /\ Len(res.body.issues) = Len(issues)
     /\ \A i \in 1..Len(issues) :
          res.body.issues[i] = [path |-> issues[i].path, message |-> issues[i].message]
     /\ res.sends = 1
     /\ calls.handler = 0 /\ calls.serialize = 0

\* C6's case: a payload violating two constraints was refused with two issues
C6_Witness ==
  /\ pc = "Fail" /\ Len(trace) = 5 /\ rawInput = Bad(2)
  /\ res.body.kind = "issues" /\ Len(res.body.issues) = 2

\* the handler returned and lines 252-279 ran
OutputChecked == InRoute /\ Len(trace) >= 7 /\ trace[6] = "OutputValidate"

\* the value the dispatcher has to serialize: the validator's canonical value, or the
\* handler's return value when the output is not validated
Canonical ==
  IF cur.entry.output \in Validators
    THEN safeParse(cur.entry.output, rawOutput).data ELSE rawOutput

\* C7 as claimed: with an output validator, a return value that fails validation is
\* answered with a 500 carrying the validator's error, no Cache-Control, no success
\* status and no serialized body; one that passes is answered with the serialization
\* of the validator's canonical value.
C7_Original ==
  (OutputChecked /\ cur.entry.output \in Validators)
  => LET r == safeParse(cur.entry.output, rawOutput) IN
     IF ~r.success
       THEN /\ pc = "Fail" /\ res.statusCode = 500
            /\ res.body.kind = "zodError" /\ res.body.issues = r.issues
            /\ res.cacheControl = "undefined" /\ calls.serialize = 0
       ELSE pc \in Terminal =>
            /\ pc = "Done" /\ res.body.kind = "text"
            /\ serialize(r.data).str /\ res.body.text = serialize(r.data).text

\* C7, amended: with an output validator and a handler that neither sent headers nor
\* ended the response, a return value that fails validation is answered with a 500
\* carrying the validator's error and nothing else (no Cache-Control, no success
\* status, no serialization); one that passes has the validator's canonical value,
\* not the raw return value, serialized, and that text is the body sent (an empty
\* body when the transformer yields no text, as JSON.stringify does for undefined).
C7_OutputValidation ==
  (OutputChecked /\ cur.entry.output \in Validators /\ ~HandlerSent)
  => LET r == safeParse(cur.entry.output, rawOutput) IN
     IF ~r.success
       THEN /\ pc = "Fail" /\ Len(trace) = 7 /\ res.statusCode = 500
            /\ res.body.kind = "zodError" /\ res.body.issues = r.issues
            /\ res.cacheControl = "undefined" /\ calls.serialize = 0
            /\ res.sends = 1 /\ "send" \notin DispatcherOps
       ELSE /\ pc \in {"Respond", "Done"}
            /\ calls.serialize = 1
            /\ output = serialize(r.data)
            /\ pc = "Done" =>
                 /\ res.sends = 1 /\ res.body.kind = "text"
                 /\ res.body.text =
                      IF serialize(r.data).str THEN serialize(r.data).text ELSE <<>>

\* C7's cases: a rejected return value answered with the 500, and an accepted one
\* whose canonical form differs from what the handler returned
C7_Witness ==
  /\ OutputChecked /\ cur.entry.output \in Validators /\ ~HandlerSent
  /\ \/ pc = "Fail" /\ rawOutput = Bad(2) /\ res.statusCode = 500
     \/ pc = "Done" /\ rawOutput = UserX /\ res.body.text = <<User>>

\* C8 as claimed: once the handler has ended the response the dispatcher calls nothing
\* on it any more (no status, no header, no body), and no response is written twice.
C8_NoWriteAfterEnd ==
  /\ \A i \in 1..Len(res.log) : res.log[i].by = "dispatcher" => ~res.log[i].ended
  /\ res.sends <= 1

\* C9 as claimed: when the request is answered in Respond and the handler sent
\* nothing, the status is 201 for post and 200 otherwise, the body is the serialized
\* output unless the output is null (then empty), and Cache-Control is the endpoint's
\* cacheControl exactly when that is declared.
C9_Original ==
  (InRoute /\ pc = "Done" /\ ~HandlerSent)
  => /\ res.statusCode = IF IsPost THEN 201 ELSE 200
     /\ res.body.kind = "text"
     /\ IF cur.entry.output # "null"
          THEN serialize(Canonical).str /\ res.body.text = serialize(Canonical).text
          ELSE res.body.text = <<>>
     /\ res.cacheControl = cur.entry.cacheControl

\* C9, amended: when the request is answered in Respond and the handler sent nothing,
\* the status is 201 for post and 200 otherwise; the body is the serialized output
\* when the output is not null and the transformer yields a text, and empty when the
\* output is null or the transformer yields none; Cache-Control is the endpoint's
\* cacheControl exactly when that is declared and not the empty string.
C9_Respond ==
  (InRoute /\ pc = "Done" /\ ~HandlerSent)
  => /\ res.statusCode = IF IsPost THEN 201 ELSE 200
     /\ res.sends = 1
     /\ res.body.kind = "text"
     /\ IF cur.entry.output # "null" /\ serialize(Canonical).str
          THEN res.body.text = serialize(Canonical).text
          ELSE res.body.text = <<>>
     /\ IF cur.entry.cacheControl \notin {"undefined", ""}
          THEN res.cacheControl = cur.entry.cacheControl
          ELSE res.cacheControl = "undefined"

\* C9's case: a post answered 201 with Cache-Control and the serialized output, after
\* a handler that set another status without sending it
C9_Witness ==
  /\ InRoute /\ pc = "Done" /\ ~HandlerSent /\ IsPost
  /\ \E i \in 1..Len(res.log) : res.log[i].by = "handler" /\ res.log[i].op = "status"
  /\ res.statusCode = 201 /\ res.cacheControl = "max-age=60"
  /\ res.body.text = <<User>>

-----------------------------------------------------------------------------
(* The server and the client over schema trees, with register() *)

\* register(handlers): fillRouter over the same router once more
\* a TypeError leaves the routes added before it in the router. register is
\* synchronous: it runs between requests or while a request waits for its body
\* or for its handler (line 243, the only await)
Register(hs) ==
  /\ ~router.threw
  /\ pc \in {"idle", "Received", "Invoke"}
  /\ Len(registered) < MaxRegister
  /\ LET rt == fillRouter(router, schema, hs, <<>>) IN
       /\ router' = [rt EXCEPT !.threw = FALSE]
       /\ registered' = Append(registered, [tree |-> hs, threw |-> rt.threw])
  /\ UNCHANGED <<clientOptions, callerInit, call>>
  /\ UNCHANGED <<schema, handlers, getMetadata, fetcher, pc, req, layer, cur,
                 metadata, rawInput, parse, rawOutput, output, res, trace, calls>>

\* createClient(schema, options); the client is another process and its
\* creation touches nothing of the server, so it is taken between requests only
CreateClient ==
  /\ fetcher = Undef
  /\ pc = "idle"
  /\ fetcher' = fillClientFetcher(schema, <<>>, Obj(<<>>))
  /\ UNCHANGED <<clientOptions, callerInit, call>>
  /\ UNCHANGED <<schema, handlers, getMetadata, router, registered, pc, req, layer,
                 cur, metadata, rawInput, parse, rawOutput, output, res, trace,
                 calls>>

\* two endpoints: one without metadata and validation, one with optional metadata,
\* no payload either way and a cache hint
EpOpen == Endpoint("undefined", "undefined", "false", "undefined", "undefined")
EpVoid == Endpoint("null", "null", "true", "false", "max-age=60")

Key(c) == <<c>>
KeyUserPosts == <<"u", "P">>
KeyUser_posts == <<"u", "_", "p">>
KeyAdminB == <<"_", "A", "b", "-", "B">>

\* the schemas of the model: a route under the root, two keys that normalize to
\* one segment, routes three keys deep, and endpoints directly at the root and
\* beside a nested route
Schemas ==
  { Obj(<<Entry(Key("u"), Obj(<<Entry(GET, EpOpen), Entry(POST, EpVoid)>>))>>),
    Obj(<<Entry(KeyUserPosts, Obj(<<Entry(GET, EpOpen)>>)),
          Entry(KeyUser_posts, Obj(<<Entry(GET, EpVoid)>>))>>),
    Obj(<<Entry(Key("a"),
            Obj(<<Entry(Key("v"),
                    Obj(<<Entry(KeyUserPosts, Obj(<<Entry(PUT, EpOpen)>>))>>)),
                  Entry(KeyAdminB,
                    Obj(<<Entry(DELETE, EpVoid), Entry(PATCH, EpOpen)>>))>>))>>),
    Obj(<<Entry(GET, EpOpen),
          Entry(Key("u"),
            Obj(<<Entry(POST, EpVoid),
                  Entry(Key("b"), Obj(<<Entry(GET, EpOpen)>>))>>))>>) }

\* the handler trees of the model for a schema: every endpoint implemented (twice,
\* by different handlers) and the partial tree holding the first subtree only
FirstOnly(hs) == Obj(<<hs.ent[1]>>)

\* a handler the schema has no endpoint for
Stray == Fn(<<"stray", <<>>>>)

RECURSIVE StrayVerbs(_, _)
\* the tree hs with, ahead of the handlers of every route, one more handler under
\* a verb the schema's route does not have
StrayVerbs(sch, hs) ==
  IF hs.t # "obj" THEN hs
  ELSE LET rest == [i \in 1..Len(hs.ent) |->
                      Entry(hs.ent[i].k, StrayVerbs(Get(sch, hs.ent[i].k), hs.ent[i].v))]
       IN IF \E i \in 1..Len(hs.ent) : hs.ent[i].v.t = "fn"
            THEN Obj(<<Entry(CHOOSE m \in Methods : Get(sch, m) = Undef, Stray)>>
                     \o rest)
            ELSE Obj(rest)

\* the tree hs with, behind its first entry, a subtree under a key the schema
\* does not have
StraySubtree(hs) ==
  Obj(<<hs.ent[1], Entry(Key("x"), Obj(<<Entry(GET, Stray)>>))>> \o Tail(hs.ent))
HandlerTrees(sch) ==
  {HandlersFor(sch, "h1", <<>>), HandlersFor(sch, "h2", <<>>),
   FirstOnly(HandlersFor(sch, "h1", <<>>)),
   StrayVerbs(sch, HandlersFor(sch, "h1", <<>>)),
   StraySubtree(HandlersFor(sch, "h1", <<>>))}

\* the trees passed to register
RegisterTrees(sch) ==
  {HandlersFor(sch, "h1", <<>>), HandlersFor(sch, "h2", <<>>),
   StrayVerbs(sch, HandlersFor(sch, "h1", <<>>)),
   StraySubtree(HandlersFor(sch, "h1", <<>>))}

InitTree ==
  /\ schema \in Schemas
  /\ handlers \in HandlerTrees(schema) \ {HandlersFor(schema, "h2", <<>>)}
  /\ getMetadata = "fn"
  /\ router = fillRouter(NewRouter, schema, handlers, <<>>)
  /\ registered = <<>>
  /\ fetcher = Undef
  /\ IdleRequest
  /\ NoClient

TreePayloads == {NoText, serialize(User), Text(Malformed)}

NextTree ==
  \/ \E hs \in RegisterTrees(schema) : Register(hs)
  \/ CreateClient
  \/ \E m \in Methods, path \in RoutePaths, payload \in TreePayloads :
       Receive(m, path, payload)
  \/ RouteNone
  \/ RouteText
  \/ RouteHandler
  \/ \E result \in ResolverResults : MetadataCheck(result)
  \/ InputExtract
  \/ Validate
  \/ \E act \in {"none", "send"} : Invoke(act, User)
  \/ InvokeThrows
  \/ OutputValidate
  \/ Respond
  \/ Finish

SpecTree == InitTree /\ [][NextTree]_vars

-----------------------------------------------------------------------------
(* Claims about paths and registration *)

RECURSIVE EndpointKeys(_, _)
\* the key paths (verb last) of the endpoints of a tree
EndpointKeys(node, keys) ==
  IF isEndpoint(node) THEN {keys}
  ELSE UNION {EndpointKeys(node.ent[i].v, Append(keys, node.ent[i].k)) :
                i \in 1..Len(ObjectEntries(node))}

RECURSIVE GetPath(_, _)
\* node[k1][k2]...
GetPath(node, kp) ==
  IF kp = <<>> THEN node ELSE GetPath(Get(node, Head(kp)), Tail(kp))

Last(kp) == kp[Len(kp)]
Ancestors(kp) == SubSeq(kp, 1, Len(kp) - 1)

RECURSIVE Slashed(_)
\* every key normalized and preceded by "/"
Slashed(keys) ==
  IF keys = <<>> THEN <<>>
  ELSE <<"/">> \o kebabTransform(Head(keys)) \o Slashed(Tail(keys))

\* "/" followed by the normalized keys joined by "/"
SlashJoined(keys) ==
  <<"/">> \o Join([i \in 1..Len(keys) |-> kebabTransform(keys[i])], <<"/">>)

RouteLayers == {i \in 1..Len(router.stack) : router.stack[i].kind = "route"}

\* the handler of the route layer i was found at the key path LayerKeys(i)
LayerKeys(i) == router.stack[i].handler.id[2]

\* server and client hold the endpoint of key path kp at the path text
PathsAre(text(_)) ==
  /\ \A i \in RouteLayers :
       /\ router.stack[i].method = Last(LayerKeys(i))
       /\ router.stack[i].entry = GetPath(schema, LayerKeys(i))
       /\ router.stack[i].path = text(Ancestors(LayerKeys(i)))
  /\ \A kp \in EndpointKeys(schema, <<>>) :
       /\ (~router.threw /\ GetPath(handlers, kp).t = "fn") =>
            \E i \in RouteLayers : /\ router.stack[i].handler = GetPath(handlers, kp)
                                   /\ LayerKeys(i) = kp
       /\ fetcher # Undef =>
            LET c == GetPath(fetcher, kp) IN
              /\ c.t = "call"
              /\ c.method = Last(kp)
              /\ c.entry = GetPath(schema, kp)
              /\ c.path = text(Ancestors(kp))
              /\ \A i \in RouteLayers : LayerKeys(i) = kp => router.stack[i].path = c.path

\* C1 as stated: for every endpoint of the schema and every verb, the path of the
\* server's route and the path of the client's call are the same text, "/"
\* followed by the normalized ancestor keys joined by "/", the verb left out.
\* An endpoint directly at the root has the empty path on both sides, not "/".
C1_Original == PathsAre(SlashJoined)

\* C1: for every endpoint of the schema and every verb, the path of the server's
\* route and the path of the client's call are the same text: every ancestor
\* key, normalized, preceded by "/" (so the empty text for an endpoint directly
\* at the root), the verb key left out.
C1_PathsAgree == PathsAre(Slashed)

\* a client and a server over the three-deep schema: PUT /a/v/u-p on both sides
C1_Witness ==
  /\ fetcher # Undef
  /\ \E i \in RouteLayers :
       /\ LayerKeys(i) = <<Key("a"), Key("v"), KeyUserPosts, PUT>>
       /\ router.stack[i].path = <<"/", "a", "/", "v", "/", "u", "-", "p">>
       /\ GetPath(fetcher, LayerKeys(i)).path = router.stack[i].path

\* every tree passed to register is the tree createServer was given
SameTreeRegistered == \A i \in 1..Len(registered) : registered[i].tree = handlers

\* the router as createServer left it
InitialStack == fillRouter(NewRouter, schema, handlers, <<>>).stack

RouteMatches(stack, r) ==
  {j \in 1..Len(stack) : stack[j].kind = "route" /\ Matches(stack[j], r)}

FirstRoute(stack, r) ==
  stack[CHOOSE j \in RouteMatches(stack, r) :
          \A k \in RouteMatches(stack, r) : j <= k]

\* C10: while only the tree given to createServer has been registered again, a
\* request is served exactly as by the router createServer built: it reaches a
\* handler exactly when that router has a route for its verb and path, the route
\* is the same one (same handler, same schema entry, same success status), the
\* handler is invoked at most once and, when the request completes, exactly one
\* response has been sent.
C10_Idempotent ==
  SameTreeRegistered =>
    /\ cur # NoCur =>
         /\ RouteMatches(InitialStack, req) # {}
         /\ cur = FirstRoute(InitialStack, req)
         /\ calls.by = <<cur.handler.id>>
         /\ calls.handler <= 1
         /\ res.sends <= 1
         /\ pc \in {"Done", "Fail"} => res.sends = 1
         /\ pc = "Done" => calls.handler = 1
    /\ pc = "NotFound" => RouteMatches(InitialStack, req) = {}

\* a request completed by a router holding the same routes more than once
C10_Witness ==
  /\ registered # <<>>
  /\ SameTreeRegistered
  /\ Cardinality(RouteMatches(router.stack, req)) > 1
  /\ pc = "Done"
  /\ calls.handler = 1

LastRoute(stack, r) ==
  stack[CHOOSE j \in RouteMatches(stack, r) :
          \A k \in RouteMatches(stack, r) : k <= j]

\* one registration of a whole tree has at most one route for the request (no
\* two keys of the schema normalize to the same path)
OneRoutePerTree(r) ==
  Cardinality(RouteMatches(
    fillRouter(NewRouter, schema, HandlersFor(schema, "h1", <<>>), <<>>).stack,
    r)) <= 1

\* C11: register never refuses a tree, so with "last registration wins" every
\* request is dispatched to the route registered last for its verb and path: an
\* earlier handler does not serve a request once a later one was registered.
\* The router dispatches to the first route instead.
C11_LastRegistrationWins ==
  [][(pc = "Received" /\ pc' = "MetadataCheck" /\ OneRoutePerTree(req)) =>
       cur' = LastRoute(router.stack, req)]_vars

\* the endpoints of the schema the tree hs has a handler for have a route to it
AllRegistered(hs) ==
  \A kp \in EndpointKeys(schema, <<>>) :
    GetPath(hs, kp).t = "fn" =>
      \E i \in RouteLayers : router.stack[i].handler = GetPath(hs, kp)

\* C12: a handler entry with no endpoint in the schema (a verb the schema's route
\* lacks, a subtree under a key the schema lacks) is silently ignored:
\* createServer and register return normally, the entry gets no route, and the
\* entries of the same tree that have an endpoint get their routes.
\* A subtree under a key the schema lacks raises a TypeError instead.
C12_StrayIgnored ==
  /\ ~router.threw
  /\ AllRegistered(handlers)
  /\ \A i \in 1..Len(registered) :
       ~registered[i].threw /\ AllRegistered(registered[i].tree)
  /\ \A i \in RouteLayers : router.stack[i].handler # Stray

\* the half of C12 that holds: stray verbs alone never raise
C12_StrayVerbsIgnored ==
  (/\ handlers = StrayVerbs(schema, HandlersFor(schema, "h1", <<>>))
   /\ \A i \in 1..Len(registered) : registered[i].tree = handlers)
  => C12_StrayIgnored

-----------------------------------------------------------------------------
(* Client: one call of a fetcher function *)

\* encodeURIComponent: % becomes %25 and " becomes %22; letters and digits stay.
\* The one token that stands for the JSON text of an object stays as it is: its
\* escapes hold no % and decode back to it
RECURSIVE encodeURIComponent(_)
encodeURIComponent(t) ==
  IF Len(t) = 0 THEN <<>>
  ELSE (IF Head(t) = Percent THEN <<Percent, Hex2, Hex5>>
        ELSE IF Head(t) = Quote THEN <<Percent, Hex2, Hex2>>
        ELSE <<Head(t)>>) \o encodeURIComponent(Tail(t))

\* JavaScript's !input
Falsy(value) == value \in {UndefV, NullV, FalseV}

\* { ...init }: a new object with init's properties (none for undefined)
Spread(init) == [init EXCEPT !.t = "init"]

\* lines 151-159: [input, init]; `same` tells that init is the caller's own object
parseArgs(e, args) ==
  IF e.input = "null"
    THEN [input |-> UndefV, init |-> Spread(args[1]), same |-> FALSE]
    ELSE [input |-> args[1], init |-> args[2], same |-> args[2].t = "init"]

\* line 165: schemaEntry.input != null && !input
InputRefused(e, input) == e.input \notin {"null", "undefined"} /\ Falsy(input)

\* lines 177-201, 208: requestInit and the URL
RequestOf(c, input, init) ==
  LET body == IF init.body.str THEN init.body ELSE clientOptions.body
      sends == c.entry.input # "null" /\ input # UndefV
      serializedInput == serialize(input)
      searchQuery == IF sends /\ c.method = GET
                       THEN <<"__body=">> \o encodeURIComponent(serializedInput.text)
                       ELSE <<>>
  IN [url |-> c.path,
      search |-> IF Len(searchQuery) > 0 THEN <<"?">> \o searchQuery ELSE <<>>,
      method |-> toUpperCase(c.method),
      body |-> IF sends /\ c.method # GET THEN serializedInput ELSE body,
      contentType |-> IF sends /\ c.method # GET THEN "application/json"
                      ELSE "undefined",
      fetch |-> "none"]

\* lines 131, 203: init?.fetch ?? baseFetch, baseFetch = options.fetch ?? fetch
FetchOf(init) ==
  IF init.t = "init" /\ init.fetch # "undefined" THEN init.fetch
  ELSE IF clientOptions.fetch # "undefined" THEN clientOptions.fetch ELSE "fetch"

\* lines 161-215: the call up to its first await: it has thrown or is waiting for
\* the fetch capability. `delete init?.fetch` acts on the caller's object when
\* init is that object
Call(kp, input, init) ==
  /\ call.cpc = "idle"
  /\ fetcher # Undef
  /\ LET c == GetPath(fetcher, kp)
         a == parseArgs(c.entry, IF c.entry.input = "null" THEN <<init>>
                                 ELSE <<input, init>>)
     IN IF InputRefused(c.entry, a.input)
          THEN /\ call' = [NoCall EXCEPT
                     !.cpc = "Rejected", !.keys = kp, !.input = a.input,
                     !.init = a.init, !.kind = "error",
                     !.error = [NoError EXCEPT !.name = "InvalidArgument"]]
               /\ UNCHANGED callerInit
          ELSE /\ call' = [NoCall EXCEPT
                     !.cpc = "Fetching", !.keys = kp, !.input = a.input,
                     !.init = [a.init EXCEPT !.fetch = "undefined"],
                     !.request = [RequestOf(c, a.input, a.init) EXCEPT
                                    !.fetch = FetchOf(a.init)],
                     !.log = <<"fetch">>]
               /\ callerInit' = IF a.same THEN [callerInit EXCEPT !.fetch = "undefined"]
                                ELSE callerInit
  /\ UNCHANGED <<schema, handlers, getMetadata, router, registered, fetcher, pc, req,
                 layer, cur, metadata, rawInput, parse, rawOutput, output, res, trace,
                 calls, clientOptions>>

\* Response.ok and Response.statusText (the reason phrase, one token of text)
Ok(status) == status >= 200 /\ status <= 299
StatusText(status) ==
  IF status = 200 THEN <<<<"OK", 0>>>>
  ELSE IF status = 201 THEN <<<<"Created", 0>>>>
  ELSE IF status = 400 THEN <<<<"Bad Request", 0>>>>
  ELSE IF status = 404 THEN <<<<"Not Found", 0>>>>
  ELSE <<<<"Internal Server Error", 0>>>>
Response(status, text) ==
  [status |-> status, ok |-> Ok(status), text |-> text,
   statusText |-> StatusText(status)]

\* the interceptor runs although the call asked to skip it
InterceptorRunsAlways(init) == clientOptions.interceptor # "undefined"

\* lines 217-218: !init?.skipInterceptor, options.interceptor?.(...)
InterceptorRuns(init) ==
  /\ ~(init.t = "init" /\ init.skipInterceptor = "true")
  /\ clientOptions.interceptor # "undefined"

\* lines 212-224: the fetch capability returned a response; the interceptor is
\* invoked with it unless skipped
FetchReturns(response) ==
  /\ call.cpc = "Fetching"
  /\ call' = [call EXCEPT
       !.response = response,
       !.cpc = IF InterceptorRuns(call.init) THEN "Intercepting" ELSE "Interpreting",
       !.log = @ \o <<"response">> \o
               (IF InterceptorRuns(call.init) THEN <<"interceptor">> ELSE <<>>)]
  /\ UNCHANGED <<schema, handlers, getMetadata, router, registered, fetcher, pc, req,
                 layer, cur, metadata, rawInput, parse, rawOutput, output, res, trace,
                 calls, clientOptions, callerInit>>

\* line 212: the fetch capability rejected (no response); the call rejects with it
FetchThrows ==
  /\ call.cpc = "Fetching"
  /\ call' = [call EXCEPT !.cpc = "Rejected", !.kind = "error",
                          !.error = [NoError EXCEPT !.name = "FetchError"]]
  /\ UNCHANGED <<schema, handlers, getMetadata, router, registered, fetcher, pc, req,
                 layer, cur, metadata, rawInput, parse, rawOutput, output, res, trace,
                 calls, clientOptions, callerInit>>

\* line 218: the interceptor returned
InterceptorReturns ==
  /\ call.cpc = "Intercepting"
  /\ call' = [call EXCEPT !.cpc = "Interpreting"]
  /\ UNCHANGED <<schema, handlers, getMetadata, router, registered, fetcher, pc, req,
                 layer, cur, metadata, rawInput, parse, rawOutput, output, res, trace,
                 calls, clientOptions, callerInit>>

\* line 218: the interceptor threw; the call rejects with what it threw
InterceptorThrows ==
  /\ call.cpc = "Intercepting"
  /\ call' = [call EXCEPT !.cpc = "Rejected", !.kind = "error",
                          !.error = [NoError EXCEPT !.name = "InterceptorError"]]
  /\ UNCHANGED <<schema, handlers, getMetadata, router, registered, fetcher, pc, req,
                 layer, cur, metadata, rawInput, parse, rawOutput, output, res, trace,
                 calls, clientOptions, callerInit>>

\* the description is the reason phrase whatever the body
HttpErrorOfStatus(c, response) ==
  [name |-> "HttpError", method |-> c.method, url |-> c.path,
   status |-> response.status, description |-> response.statusText]

\* lines 237-242, 84-105: new HttpError(method, path, status, text || statusText)
HttpErrorOf(c, response) ==
  [name |-> "HttpError", method |-> c.method, url |-> c.path,
   status |-> response.status,
   description |-> IF Len(response.text) > 0 THEN response.text
                   ELSE response.statusText]

\* lines 226-242: the call resolves or rejects
Interpret ==
  /\ call.cpc = "Interpreting"
  /\ LET c == GetPath(fetcher, call.keys)
         r == call.response
         d == deserialize(r.text)
     IN call' =
          IF r.ok /\ c.entry.output = "null"
            THEN [call EXCEPT !.cpc = "Resolved", !.kind = "value", !.value = NullV]
          ELSE IF r.ok /\ d.threw
            THEN [call EXCEPT !.cpc = "Rejected", !.kind = "error",
                              !.error = [NoError EXCEPT !.name = "SyntaxError"],
                              !.log = @ \o <<"text", "deserialize">>]
          ELSE IF r.ok
            THEN [call EXCEPT !.cpc = "Resolved", !.kind = "value",
                              !.value = d.value,
                              !.log = @ \o <<"text", "deserialize">>]
          ELSE [call EXCEPT !.cpc = "Rejected", !.kind = "error",
                            !.error = HttpErrorOf(c, r), !.log = @ \o <<"text">>]
  /\ UNCHANGED <<schema, handlers, getMetadata, router, registered, fetcher, pc, req,
                 layer, cur, metadata, rawInput, parse, rawOutput, output, res, trace,
                 calls, clientOptions, callerInit>>

\* the caller has the outcome; its init object stays as the call left it
Return ==
  /\ call.cpc \in {"Resolved", "Rejected"}
  /\ call' = NoCall
  /\ UNCHANGED <<schema, handlers, getMetadata, router, registered, fetcher, pc, req,
                 layer, cur, metadata, rawInput, parse, rawOutput, output, res, trace,
                 calls, clientOptions, callerInit>>

\* the init objects a caller holds (`given` keeps the fetch override the caller
\* created the object with) and the options of a client
InitObjects ==
  {[t |-> "init", fetch |-> f, skipInterceptor |-> k, body |-> b, given |-> f] :
     f \in {"undefined", "f2"}, k \in {"undefined", "true"},
     b \in {NoText, Text(<<User>>)}}
ClientOptions ==
  [fetch : {"undefined", "f1"}, body : {NoText, Text(<<UserX>>)},
   interceptor : {"undefined", "fn"}]
ClientInputs == {UndefV, FalseV, User, StrPct}
Statuses == {200, 201, 400, 500}
ResponseTexts == {<<>>, serialize(User).text, Malformed}

\* a client over a schema with one route holding a get and a post endpoint of the
\* same declaration
ClientEndpoints ==
  {Endpoint(i, o, "undefined", "undefined", "undefined") :
     i \in Inputs, o \in {"null", "undefined"}}

InitClient ==
  /\ \E e \in ClientEndpoints :
       schema = Obj(<<Entry(RouteKey, Obj(<<Entry(GET, e), Entry(POST, e)>>))>>)
  /\ handlers = Obj(<<>>)
  /\ getMetadata = "undefined"
  /\ router = NewRouter
  /\ registered = <<>>
  /\ fetcher = fillClientFetcher(schema, <<>>, Obj(<<>>))
  /\ IdleRequest
  /\ clientOptions \in ClientOptions
  /\ callerInit \in InitObjects
  /\ call = NoCall

NextClient ==
  \/ \E m \in {GET, POST}, input \in ClientInputs, init \in {NoInit, callerInit} :
       Call(<<RouteKey, m>>, input, init)
  \/ \E status \in Statuses, text \in ResponseTexts :
       FetchReturns(Response(status, text))
  \/ FetchThrows
  \/ InterceptorReturns
  \/ InterceptorThrows
  \/ Interpret
  \/ Return

SpecClient == InitClient /\ [][NextClient]_vars

-----------------------------------------------------------------------------
(* Claims about the client *)

CallEntry == GetPath(fetcher, call.keys).entry
CallMethod == GetPath(fetcher, call.keys).method
Issued == call.cpc # "idle" /\ Len(call.log) > 0
Settled == call.cpc \in {"Resolved", "Rejected"}
Skipped == call.init.t = "init" /\ call.init.skipInterceptor = "true"
Times(what) == Cardinality({i \in 1..Len(call.log) : call.log[i] = what})

\* C13: at an endpoint whose input is not null a call without an input value
\* fails at once with the InvalidArgument error, before the fetch capability or
\* the interceptor is invoked, and a call with an input value is not refused.
\* The test refuses falsy values and lets an unvalidated endpoint go without one.
C13_InputRequired ==
  (call.cpc # "idle" /\ CallEntry.input # "null") =>
    /\ call.input = UndefV =>
         call.cpc = "Rejected" /\ call.error.name = "InvalidArgument" /\ call.log = <<>>
    /\ call.input # UndefV => call.error.name # "InvalidArgument"

\* C14: the request a get call hands to the fetch capability has no body,
\* whatever the input, the call's init and the client's init.
\* A body of either init is passed on.
C14_GetHasNoBody ==
  (Issued /\ CallMethod = GET /\ CallEntry.input # "null") =>
    call.request.body = NoText

\* C15 as stated: a call that issued a request has invoked the interceptor once
\* (never when skipped) by the time it resolves or rejects.
\* A call whose fetch capability rejects never invokes it.
C15_Original ==
  (Issued /\ Settled /\ clientOptions.interceptor = "fn") =>
    Times("interceptor") = IF Skipped THEN 0 ELSE 1

\* C15: in a call whose fetch capability returned a response the interceptor is
\* invoked once, or never when the call skips it, for every status; the invocation
\* follows the response at once, before the body is read or deserialized and
\* before the call resolves or rejects. Without a response it is not invoked.
C15_InterceptorOnce ==
  (call.cpc # "idle" /\ clientOptions.interceptor = "fn") =>
    /\ Times("interceptor") =
         IF Times("response") = 1 /\ ~Skipped THEN 1 ELSE 0
    /\ \A i \in 1..Len(call.log) : call.log[i] = "interceptor" =>
         /\ i > 1 /\ call.log[i - 1] = "response"
         /\ \A j \in 1..Len(call.log) :
              call.log[j] \in {"text", "deserialize"} => i < j
    /\ call.cpc = "Intercepting" => ~Settled /\ Times("text") = 0

\* a failed response went through the interceptor before the call rejected
C15_Witness ==
  /\ call.cpc = "Rejected"
  /\ call.error.name = "HttpError"
  /\ call.log = <<"fetch", "response", "interceptor", "text">>

\* the Transport Error of the call in flight for its response
TransportError ==
  [name |-> "HttpError", method |-> CallMethod,
   url |-> GetPath(fetcher, call.keys).path, status |-> call.response.status,
   description |-> IF call.response.text # <<>> THEN call.response.text
                   ELSE StatusText(call.response.status)]

\* how a call with a 2xx response ends according to C16
ResolvesAsStated ==
  /\ call.cpc = "Resolved"
  /\ IF CallEntry.output = "null"
       THEN call.value = NullV /\ Times("text") = 0
       ELSE call.value = deserialize(call.response.text).value

\* C16 as stated: a call with a response rejects with a Transport Error exactly
\* when the status is not 2xx, and resolves as stated when it is.
\* An interceptor that throws and a 2xx body that is no JSON end the call otherwise.
C16_Original ==
  (Settled /\ Times("response") = 1) =>
    /\ call.error.name = "HttpError" <=> ~call.response.ok
    /\ ~call.response.ok => call.cpc = "Rejected" /\ call.error = TransportError
    /\ call.response.ok => ResolvesAsStated

\* C16: a call whose interceptor did not throw rejects with a Transport Error
\* exactly when the response is not 2xx; the error carries the verb, the path, the
\* status and as description the body text, or the reason phrase when the body is
\* empty. A 2xx response resolves with null, the body unread, when the output is
\* null; otherwise with deserialize(body text), and when deserialize throws the
\* call rejects with what it threw.
C16_Interpretation ==
  (Settled /\ Times("response") = 1 /\ call.error.name # "InterceptorError") =>
    /\ call.error.name = "HttpError" <=> ~call.response.ok
    /\ ~call.response.ok => call.cpc = "Rejected" /\ call.error = TransportError
    /\ (call.response.ok /\ call.error.name # "SyntaxError") => ResolvesAsStated
    /\ call.error.name = "SyntaxError" <=>
         /\ call.response.ok
         /\ CallEntry.output # "null"
         /\ deserialize(call.response.text).threw

\* a 400 with an empty body rejected with the reason phrase as description
C16_Witness ==
  /\ call.cpc = "Rejected"
  /\ call.response.status = 400
  /\ call.response.text = <<>>
  /\ call.error.name = "HttpError"
  /\ call.error.description = <<<<"Bad Request", 0>>>>

\* C17: every call hands its request to the fetch capability in force for it:
\* the override of the init the caller passed when the caller gave that init
\* one, the client's default otherwise, also when one init object is passed
\* to several calls.
\* The call deletes the override from the caller's object.
C17_EffectiveFetch ==
  Issued =>
    call.request.fetch =
      IF call.init.given # "undefined" THEN call.init.given
      ELSE IF clientOptions.fetch # "undefined" THEN clientOptions.fetch
      ELSE "fetch"

-----------------------------------------------------------------------------
(* Server: an exception that leaves the route handler *)

FrameworkActed == \E i \in 1..Len(res.log) : res.log[i].by = "framework"

\* The route handler is an async function (line 203): an exception in it rejects
\* its promise. Express 4 ignores the rejection and the request stays as it is;
\* Express 5 passes it to its error handler, which answers 500 when no headers
\* were sent and otherwise closes the connection. This is the second outcome.
DefaultErrorHandler ==
  /\ pc = "Crashed"
  /\ ~FrameworkActed
  /\ res' = IF res.headersSent THEN Called(res, "framework", "destroy")
            ELSE ResSend(ResStatus(res, "framework", 500), "framework", "send",
                         ErrorBody("Internal Server Error"))
  /\ UNCHANGED <<clientOptions, callerInit, call>>
  /\ UNCHANGED <<schema, handlers, getMetadata, router, registered, fetcher, pc, req,
                 layer, cur, metadata, rawInput, parse, rawOutput, output, trace,
                 calls>>

NextErr == Next \/ DefaultErrorHandler

SpecErr == Init /\ [][NextErr]_vars

HandlerThrew ==
  pc = "Crashed" /\ Len(trace) >= 2 /\ trace[Len(trace) - 1] = "Invoke"
ReachedRespond == \E i \in 1..Len(trace) : trace[i] = "Respond"

\* C18: a request at a registered endpoint that stopped before Respond has had
\* exactly one error response written, with status 400 or 500, and a request
\* whose handler returned ends with exactly one response written. A request that
\* ended in an exception is looked at once the framework's error handler has
\* dealt with it.
\* After a handler that wrote to the response, a failed output validation leaves
\* the request without a complete response.
C18_AlwaysAnswered ==
  (/\ cur # NoCur
   /\ pc \in {"Done", "Fail"} \/ (pc = "Crashed" /\ FrameworkActed)
   /\ ~HandlerThrew) =>
    /\ res.sends = 1
    /\ ~ReachedRespond => res.statusCode \in {400, 500}

-----------------------------------------------------------------------------
(* A client call served by the server *)

\* the query parser of the HTTP server: the value of __body, URL-decoded (left
\* as it is when it cannot be decoded)
QueryParse(search) ==
  IF Len(search) = 0 THEN NoText
  ELSE LET raw == SubSeq(search, 3, Len(search))
           dec == decodeURIComponent(raw)
       IN Text(IF dec.threw THEN raw ELSE dec.text)

\* one call at a time: it starts when the server is done with the one before
CallServed(kp, input) == pc = "idle" /\ Call(kp, input, NoInit)

\* the request of the call in flight arrives at the server
Transmit ==
  /\ call.cpc = "Fetching"
  /\ Receive(CallMethod, call.request.url,
             IF CallMethod = GET THEN QueryParse(call.request.search)
             ELSE call.request.body)

\* the body of the response as text: what res.send was given, the JSON text of
\* what res.json was given
BodyText(body) ==
  IF body.kind = "text" THEN body.text
  ELSE IF body.kind = "none" THEN <<>>
  ELSE <<<<"error json", 0>>>>

\* the response of the server reaches the call in flight
Deliver ==
  /\ pc \in {"Done", "Fail", "NotFound"} \/ (pc = "Crashed" /\ FrameworkActed)
  /\ res.sends = 1
  /\ FetchReturns(Response(res.statusCode, BodyText(res.body)))

\* the server is done with the request once the caller has its outcome
FinishServed == call.cpc = "idle" /\ Finish

ServedInputs == {UndefV, User, UserX, StrA, StrPct, StrP}
ServedOutputs == {UndefV, NullV, FalseV, User, StrPct}
ServedEndpoints ==
  {Endpoint(i, o, "false", "undefined", "undefined") :
     i \in {"undefined", "UserSchema"}, o \in {"undefined", "null"}}

InitServed ==
  /\ \E e \in ServedEndpoints :
       schema = Obj(<<Entry(RouteKey, Obj(<<Entry(GET, e), Entry(POST, e)>>))>>)
  /\ handlers = HandlersFor(schema, "h1", <<>>)
  /\ getMetadata = "undefined"
  /\ router = fillRouter(NewRouter, schema, handlers, <<>>)
  /\ registered = <<>>
  /\ fetcher = fillClientFetcher(schema, <<>>, Obj(<<>>))
  /\ IdleRequest
  /\ NoClient

NextServed ==
  \/ \E m \in {GET, POST}, input \in ServedInputs : CallServed(<<RouteKey, m>>, input)
  \/ Transmit
  \/ RouteText
  \/ RouteHandler
  \/ MetadataCheck("null")
  \/ InputExtract
  \/ Validate
  \/ \E value \in ServedOutputs : Invoke("none", value)
  \/ InvokeThrows
  \/ OutputValidate
  \/ Respond
  \/ DefaultErrorHandler
  \/ Deliver
  \/ Interpret
  \/ Return
  \/ FinishServed

SpecServed == InitServed /\ [][NextServed]_vars

-----------------------------------------------------------------------------
(* Claims about a call served by the server *)

\* the server has the request of the call in flight
Serving == call.cpc = "Fetching" /\ cur # NoCur

\* C19: for a get endpoint with non-null input, the text the server hands to
\* deserialize is the serialized payload of the client: one URL-encoding, the
\* query parsing and getInput's URL-decoding compose to the identity, and the
\* handler's input is the validated form of the caller's value.
\* The payload is decoded twice: a text holding % changes or cannot be decoded.
C19_PayloadIdentity ==
  (Serving /\ CallMethod = GET /\ CallEntry.input # "null" /\ call.input # UndefV) =>
    /\ ~ReadBody(req, cur.entry.input).threw
    /\ ReadBody(req, cur.entry.input).body = serialize(call.input)
    /\ calls.handler = 1 =>
         calls.input = ParseInput(cur.entry.input, call.input).data

\* the handler of the request of the call in flight has returned
Returned == cur # NoCur /\ calls.handler = 1 /\ ~HandlerThrew /\ pc # "Invoke"

\* C20: at an endpoint whose output is undefined the server sends the serialized
\* return value of the handler, whatever it is, and the call resolves with a
\* value equal to it; the call never fails on a 2xx response of the dispatcher.
\* A handler that returns nothing gets an empty body, which the client cannot
\* deserialize.
C20_OutputRoundTrip ==
  (Settled /\ Returned /\ cur.entry.output = "undefined") =>
    /\ call.response.ok
    /\ call.response.text = serialize(rawOutput).text
    /\ call.cpc = "Resolved"
    /\ call.value = rawOutput

====
